---- MODULE Spec2Model ----
(***************************************************************************)
(* The geo-editing session controller of the map editor (the static editor *)
(* script): file context, the three overlay layers and their original      *)
(* snapshots, the two edit sessions, the response cache, and the           *)
(* asynchronous handlers (fetch continuations, the editor-plugin callback, *)
(* the local file reader) that interleave with the operator's intents.     *)
(*                                                                         *)
(* The mutable module variables of the script are the VARIABLES below.     *)
(* A handler is written as an operator from the state record Cur to the    *)
(* state record after the handler has run up to its next suspension point; *)
(* a suspended handler is a record in `tasks`, resumed by a Resume action. *)
(* An await on a cache hit is not a suspension point (no intent can run    *)
(* between the hit and the continuation), a network fetch is.              *)
(***************************************************************************)
EXTENDS Integers, Sequences, FiniteSets, TLC

\* ------------------------------------------------------------ bounds
\* Handlers suspended at a network request, plugin load or file read at once.
MaxTasks == 2
\* Edits (vertex drags, marker moves) applied to one overlay.
MaxEdit == 1
\* Intents of the operator (clicks, selections, waiting for the cache to
\* expire) in one run; resumptions of suspended handlers and edit gestures
\* (bounded by MaxEdit) are not counted.
MaxIntents == 4
\* Clock advances in a run of the clocked cache.
MaxTicks == 2
\* fetchJsonWithCache calls suspended at once in a run of the clocked cache.
MaxFetches == 1
\* Features of a collection passed to filterGeoJSONBySchool.
MaxFeatures == 3

\* ------------------------------------------------------------ the data
\* File names the backend lists, the name of the local file the operator
\* may open, and the marker for "no file" (null / the empty option).
Files == {"A", "B"}
LocalName == "L"
NoFile == ""

\* A feature: geometry type, coordinates (one number per geometry element;
\* an edit of the element adds 1), properties.school_name ("" when absent).
Feat(t, c, s) == [type |-> "Feature", gtype |-> t, coordinates |-> c, school_name |-> s]
FC(fs) == [type |-> "FeatureCollection", features |-> fs]
Null == [type |-> "null", features |-> <<>>]

\* What the backend holds: polygons for A and B, points and items for A only
\* (GET /api/points/B and /api/items/B answer 404).
ServerPolygons(f) ==
  IF f = "A" THEN FC(<<Feat("Polygon", <<10>>, "X"), Feat("Polygon", <<20>>, "Y")>>)
  ELSE FC(<<Feat("MultiPolygon", <<30, 40>>, "X")>>)
ServerPoints(f) ==
  IF f = "A" THEN FC(<<Feat("Point", <<50>>, "X")>>) ELSE Null
ServerItems(f) ==
  IF f = "A" THEN FC(<<Feat("Polygon", <<60>>, "Y")>>) ELSE Null

\* History snapshots (GET /api/history/{save_id}): h1 is a whole-file save of
\* A, h2 a save of A scoped to school X that carries no points, h3 a record
\* of B that carries neither polygons nor points.
HistoryIds == {"h1", "h2", "h3"}
HistorySnapshot(id) ==
  IF id = "h1"
  THEN [file_name |-> "A", school_name |-> "",
        polygons |-> FC(<<Feat("Polygon", <<70>>, "X"), Feat("Polygon", <<80>>, "Y")>>),
        points |-> FC(<<Feat("Point", <<90>>, "X")>>)]
  ELSE IF id = "h2"
  THEN [file_name |-> "A", school_name |-> "X",
        polygons |-> FC(<<Feat("Polygon", <<100>>, "X")>>),
        points |-> Null]
  ELSE [file_name |-> "B", school_name |-> "", polygons |-> Null, points |-> Null]
\* GET /api/history?file_name=&school_name= : the versions of a file / school.
HistoryList(f, school) ==
  IF f = "A" THEN (IF school = "" THEN {"h1", "h2"} ELSE IF school = "X" THEN {"h2"} ELSE {})
  ELSE IF school = "" THEN {"h3"} ELSE {}

\* The local file the operator may open (its text parses or not).
LocalGeoJSON == FC(<<Feat("Polygon", <<110>>, "")>>)

\* The file a coordinate's geometry element was loaded from (edits keep it).
Base(c) == c - (c % 10)
OriginFile(c) == IF Base(c) \in {30, 40} THEN "B"
                 ELSE IF Base(c) = 110 THEN LocalName ELSE "A"

\* ------------------------------------------------------------ the state
VARIABLES
  fileSel,              \* fileSelect.value
  schoolSel,            \* schoolSelect.value
  schoolOptions,        \* the options of schoolSelect besides "all"
  historySel,           \* historySelect.value
  historyOptions,       \* the options of historySelect besides "current"
  showPoints,           \* showPointsCheckbox.checked
  showItems,            \* showItemsCheckbox.checked
  currentPolygonLayer,  \* [null, overlays]
  currentPointsLayer,
  currentItemsLayer,
  polygonEditors,       \* the editors in the polygonEditors list (a count)
  isPolygonEditing,
  isPointsEditing,
  originalPolygonGeoJSON,
  originalPointsGeoJSON,
  originalItemsGeoJSON,
  currentFileName,
  currentFileSource,
  responseCache,        \* kind -> key -> data or Null (absent)
  status,               \* the status line, by message kind
  tasks,                \* suspended handlers
  intents,              \* the intents so far (bounds the run)
  \* -- the response cache with its clock (specification CacheSpec)
  now,                  \* Date.now()
  ticks,                \* the clock advances so far (bounds the run)
  timedCache,           \* <<kind, key>> -> [ts, data], the Maps of responseCache
  fetches,              \* fetchJsonWithCache calls suspended at their fetch
  ret,                  \* what the last cacheGet / fetchJsonWithCache returned
  lastSet,              \* <<kind, key>> -> [ts, data] of the last cacheSet
  \* -- filterGeoJSONBySchool applied to drawn arguments (specification FilterSpec)
  geojsonArg,           \* the collection passed
  schoolNameArg,        \* the school name passed
  filtered,             \* the result
  refiltered,           \* the result of filtering the result again
  filterStage           \* 0 before the call, 1 after it, 2 after the second call

vars == <<fileSel, schoolSel, schoolOptions, historySel, historyOptions,
          showPoints, showItems, currentPolygonLayer, currentPointsLayer,
          currentItemsLayer, polygonEditors, isPolygonEditing, isPointsEditing,
          originalPolygonGeoJSON, originalPointsGeoJSON, originalItemsGeoJSON,
          currentFileName, currentFileSource, responseCache, status, tasks, intents,
          now, ticks, timedCache, fetches, ret, lastSet,
          geojsonArg, schoolNameArg, filtered, refiltered, filterStage>>

\* The session controller's variables and the clocked cache's variables.
sessionVars ==
  <<fileSel, schoolSel, schoolOptions, historySel, historyOptions,
    showPoints, showItems, currentPolygonLayer, currentPointsLayer,
    currentItemsLayer, polygonEditors, isPolygonEditing, isPointsEditing,
    originalPolygonGeoJSON, originalPointsGeoJSON, originalItemsGeoJSON,
    currentFileName, currentFileSource, responseCache, status, tasks, intents>>
cacheVars == <<now, ticks, timedCache, fetches, ret, lastSet>>
filterVars == <<geojsonArg, schoolNameArg, filtered, refiltered, filterStage>>

\* The state as one record, so that a handler is an operator on it.
Cur ==
  [fileSel |-> fileSel, schoolSel |-> schoolSel, schoolOptions |-> schoolOptions,
   historySel |-> historySel, historyOptions |-> historyOptions,
   showPoints |-> showPoints, showItems |-> showItems,
   currentPolygonLayer |-> currentPolygonLayer,
   currentPointsLayer |-> currentPointsLayer,
   currentItemsLayer |-> currentItemsLayer,
   polygonEditors |-> polygonEditors,
   isPolygonEditing |-> isPolygonEditing, isPointsEditing |-> isPointsEditing,
   originalPolygonGeoJSON |-> originalPolygonGeoJSON,
   originalPointsGeoJSON |-> originalPointsGeoJSON,
   originalItemsGeoJSON |-> originalItemsGeoJSON,
   currentFileName |-> currentFileName, currentFileSource |-> currentFileSource,
   responseCache |-> responseCache, status |-> status, tasks |-> tasks]

\* The step to state record s; a step that would hold more than MaxTasks
\* suspended handlers is outside the bounds.
Set(s) ==
  /\ Cardinality(s.tasks) <= MaxTasks
  /\ fileSel' = s.fileSel
  /\ schoolSel' = s.schoolSel
  /\ schoolOptions' = s.schoolOptions
  /\ historySel' = s.historySel
  /\ historyOptions' = s.historyOptions
  /\ showPoints' = s.showPoints
  /\ showItems' = s.showItems
  /\ currentPolygonLayer' = s.currentPolygonLayer
  /\ currentPointsLayer' = s.currentPointsLayer
  /\ currentItemsLayer' = s.currentItemsLayer
  /\ polygonEditors' = s.polygonEditors
  /\ isPolygonEditing' = s.isPolygonEditing
  /\ isPointsEditing' = s.isPointsEditing
  /\ originalPolygonGeoJSON' = s.originalPolygonGeoJSON
  /\ originalPointsGeoJSON' = s.originalPointsGeoJSON
  /\ originalItemsGeoJSON' = s.originalItemsGeoJSON
  /\ currentFileName' = s.currentFileName
  /\ currentFileSource' = s.currentFileSource
  /\ responseCache' = s.responseCache
  /\ status' = s.status
  /\ tasks' = s.tasks
  /\ UNCHANGED <<cacheVars, filterVars>>

\* An intent of the operator leading to s, and the resumption of a suspended
\* handler leading to s.
Intent(s) == intents < MaxIntents /\ intents' = intents + 1 /\ Set(s)
Async(s) == intents' = intents /\ Set(s)
\* An edit gesture on an overlay leading to s (bounded by MaxEdit).
Gesture(s) == intents' = intents /\ Set(s)

\* ------------------------------------------------------------ helpers
setStatus(s, text) == [s EXCEPT !.status = text]

\* JSON.parse(JSON.stringify(obj)) of a JSON value: the same value, null for a
\* falsy argument. (Values here are immutable, so the copy only matters as a
\* value.)
cloneGeoJSON(obj) == IF obj = Null THEN Null ELSE obj

\* responseCache: the entries that a read at the present time returns, as a
\* function from <<kind, key>>; an entry older than CACHE_TTL_MS is deleted by
\* the read that finds it (action Expire takes it out when time has passed).
HistKey(f, school) == f \o "&" \o school
CacheHas(s, kind, key) == <<kind, key>> \in DOMAIN s.responseCache
cacheGet(s, kind, key) == s.responseCache[<<kind, key>>]
cacheSet(s, kind, key, data) ==
  [s EXCEPT !.responseCache =
     [x \in (DOMAIN s.responseCache) \cup {<<kind, key>>} |->
        IF x = <<kind, key>> THEN data ELSE s.responseCache[x]]]

RECURSIVE SelectSeq2Reversed(_, _)
\* A filter that returns the matching features last first (used to test C16).
SelectSeq2Reversed(fs, schoolName) ==
  IF fs = <<>> THEN <<>>
  ELSE IF Head(fs).school_name = schoolName
       THEN SelectSeq2Reversed(Tail(fs), schoolName) \o <<Head(fs)>>
       ELSE SelectSeq2Reversed(Tail(fs), schoolName)

RECURSIVE SelectSeq2(_, _)
\* features.filter(f => f.properties.school_name === schoolName)
SelectSeq2(fs, schoolName) ==
  IF fs = <<>> THEN <<>>
  ELSE IF Head(fs).school_name = schoolName
       THEN <<Head(fs)>> \o SelectSeq2(Tail(fs), schoolName)
       ELSE SelectSeq2(Tail(fs), schoolName)

filterGeoJSONBySchool(geojson, schoolName) ==
  IF geojson = Null \/ schoolName = "" THEN geojson
  ELSE IF geojson.type # "FeatureCollection" THEN geojson
  ELSE FC(SelectSeq2(geojson.features, schoolName))

\* setSchoolOptions: rebuilding the options selects the first one ("all").
setSchoolOptions(s, geojson) ==
  [s EXCEPT !.schoolSel = "",
            !.schoolOptions =
               IF geojson = Null \/ geojson.type # "FeatureCollection" THEN {}
               ELSE {geojson.features[i].school_name : i \in DOMAIN geojson.features} \ {""}]

\* setHistoryOptions: rebuilding the options selects the first one ("current").
setHistoryOptions(s, items) ==
  [s EXCEPT !.historySel = "", !.historyOptions = items]

\* schoolSelect.value = v: a value that is no option selects nothing ("").
setSchoolValue(s, v) ==
  [s EXCEPT !.schoolSel = IF v \in s.schoolOptions THEN v ELSE ""]

getSelectedSchool(s) == s.schoolSel
isSchoolFilterActive(s) == getSelectedSchool(s) # ""

\* ------------------------------------------------------------ layers
LayerNull == [null |-> TRUE, overlays |-> <<>>]
Layer(ovs) == [null |-> FALSE, overlays |-> ovs]
\* !layer || !layer.length
LayerEmpty(l) == l.null \/ Len(l.overlays) = 0

Overlay(cls, pos, school) ==
  [cls |-> cls, pos |-> pos, school_name |-> school, draggable |-> FALSE, editor |-> FALSE]

RECURSIVE OverlaysOfElements(_, _, _)
\* coords.forEach(c => overlays.push(new cls({.. c, extData: props})))
OverlaysOfElements(cls, coords, school) ==
  IF coords = <<>> THEN <<>>
  ELSE <<Overlay(cls, Head(coords), school)>> \o OverlaysOfElements(cls, Tail(coords), school)

createOverlaysFromFeature(feature) ==
  LET type == feature.gtype
      coords == feature.coordinates
      props == feature.school_name
  IN  IF type = "Point" THEN <<Overlay("Marker", coords[1], props)>>
      ELSE IF type = "MultiPoint" THEN OverlaysOfElements("Marker", coords, props)
      ELSE IF type = "LineString" THEN <<Overlay("Polyline", coords[1], props)>>
      ELSE IF type = "MultiLineString" THEN OverlaysOfElements("Polyline", coords, props)
      ELSE IF type = "Polygon" THEN <<Overlay("Polygon", coords[1], props)>>
      ELSE IF type = "MultiPolygon" THEN OverlaysOfElements("Polygon", coords, props)
      ELSE <<>>

RECURSIVE FlatMapFeatures(_)
FlatMapFeatures(fs) ==
  IF fs = <<>> THEN <<>>
  ELSE createOverlaysFromFeature(Head(fs)) \o FlatMapFeatures(Tail(fs))

createOverlaysFromGeoJSON(geojson) ==
  IF geojson = Null THEN <<>>
  ELSE IF geojson.type = "FeatureCollection" THEN FlatMapFeatures(geojson.features)
  ELSE IF geojson.type = "Feature" THEN createOverlaysFromFeature(geojson)
  ELSE <<>>

clearPolygonLayer(s) == [s EXCEPT !.currentPolygonLayer = LayerNull]
clearPointsLayer(s) == [s EXCEPT !.currentPointsLayer = LayerNull]
clearItemsLayer(s) == [s EXCEPT !.currentItemsLayer = LayerNull]
clearAllLayers(s) == clearItemsLayer(clearPointsLayer(clearPolygonLayer(s)))

renderGeoJSON(s, geojson, skipOriginal) ==
  LET s1 == clearPolygonLayer(s)
      s2 == [s1 EXCEPT !.currentPolygonLayer = Layer(createOverlaysFromGeoJSON(geojson))]
      s3 == IF skipOriginal THEN s2
            ELSE [s2 EXCEPT !.originalPolygonGeoJSON = cloneGeoJSON(geojson)]
  IN  setStatus(s3, "loaded")

renderPointsGeoJSON(s, geojson, skipOriginal) ==
  LET s1 == clearPointsLayer(s)
      s2 == [s1 EXCEPT !.currentPointsLayer = Layer(createOverlaysFromGeoJSON(geojson))]
      s3 == IF skipOriginal THEN s2
            ELSE [s2 EXCEPT !.originalPointsGeoJSON = cloneGeoJSON(geojson)]
  IN  setStatus(s3, "pointsLoaded")

renderItemsGeoJSON(s, geojson, skipOriginal) ==
  LET s1 == clearItemsLayer(s)
      s2 == [s1 EXCEPT !.currentItemsLayer = Layer(createOverlaysFromGeoJSON(geojson))]
      s3 == IF skipOriginal THEN s2
            ELSE [s2 EXCEPT !.originalItemsGeoJSON = cloneGeoJSON(geojson)]
  IN  setStatus(s3, "itemsLoaded")

RECURSIVE FeaturesOfOverlays(_, _)
\* overlaysToGeoJSON's loop: an overlay whose class is not the one asked for
\* is skipped.
FeaturesOfOverlays(ovs, geometryType) ==
  IF ovs = <<>> THEN <<>>
  ELSE LET o == Head(ovs)
           rest == FeaturesOfOverlays(Tail(ovs), geometryType)
       IN  IF geometryType = "Point" /\ o.cls = "Marker"
             THEN <<Feat("Point", <<o.pos>>, o.school_name)>> \o rest
           ELSE IF geometryType = "Polygon" /\ o.cls = "Polygon"
             THEN <<Feat("Polygon", <<o.pos>>, o.school_name)>> \o rest
           ELSE IF geometryType = "LineString" /\ o.cls = "Polyline"
             THEN <<Feat("LineString", <<o.pos>>, o.school_name)>> \o rest
           ELSE rest

overlaysToGeoJSON(layer, geometryType) ==
  IF layer.null THEN FC(<<>>) ELSE FC(FeaturesOfOverlays(layer.overlays, geometryType))

\* ------------------------------------------------------------ edit sessions
RECURSIVE SetEditors(_, _)
\* Every Polygon overlay of ovs with its editor open (or closed).
SetEditors(ovs, open) ==
  IF ovs = <<>> THEN <<>>
  ELSE <<IF Head(ovs).cls = "Polygon" THEN [Head(ovs) EXCEPT !.editor = open] ELSE Head(ovs)>>
       \o SetEditors(Tail(ovs), open)

RECURSIVE SetDraggable(_, _)
SetDraggable(ovs, draggable) ==
  IF ovs = <<>> THEN <<>>
  ELSE <<IF Head(ovs).cls = "Marker" THEN [Head(ovs) EXCEPT !.draggable = draggable] ELSE Head(ovs)>>
       \o SetDraggable(Tail(ovs), draggable)

\* The editors of the list are closed (those of the current layer's overlays
\* and those left on overlays that were removed), and the list emptied.
closePolygonEditors(s) ==
  [s EXCEPT !.currentPolygonLayer.overlays = SetEditors(@, FALSE),
            !.polygonEditors = 0,
            !.isPolygonEditing = FALSE]

setMarkersDraggable(layer, draggable) ==
  [layer EXCEPT !.overlays = SetDraggable(@, draggable)]

disableAllEditing(s) ==
  LET s1 == closePolygonEditors(s)
  IN  IF s1.isPointsEditing
      THEN [s1 EXCEPT !.currentPointsLayer = setMarkersDraggable(@, FALSE),
                      !.isPointsEditing = FALSE]
      ELSE s1

\* Suspend: the handler's continuation waits in `tasks`. (Two suspended
\* handlers with the same continuation are one element of the set: the
\* second request is then one that never resolves.)
Task(k, file, arg, body) == [k |-> k, file |-> file, arg |-> arg, body |-> body]
Spawn(s, t) == [s EXCEPT !.tasks = @ \cup {t}]

\* The AMap.plugin callback of togglePolygonEditing. currentPolygonLayer may
\* have become null since the click: forEach then throws, after
\* closePolygonEditors has run.
PolygonsIn(ovs) == {i \in DOMAIN ovs : ovs[i].cls = "Polygon"}
pluginCallback(s) ==
  LET s1 == closePolygonEditors(s)
  IN  IF s1.currentPolygonLayer.null THEN s1
      ELSE setStatus(
             [s1 EXCEPT !.currentPolygonLayer.overlays = SetEditors(@, TRUE),
                        !.polygonEditors = Cardinality(PolygonsIn(s1.currentPolygonLayer.overlays)),
                        !.isPolygonEditing = TRUE],
             "polygonEditOn")

\* togglePolygonEditing without the school-filter guard (a mutant).
togglePolygonEditingNoFilterGuard(s) ==
  IF LayerEmpty(s.currentPolygonLayer) THEN setStatus(s, "noPolygonsToEdit")
  ELSE IF s.isPolygonEditing THEN closePolygonEditors(s)
  ELSE Spawn(s, Task("plugin", NoFile, "", Null))

togglePolygonEditing(s) ==
  IF LayerEmpty(s.currentPolygonLayer) THEN setStatus(s, "noPolygonsToEdit")
  ELSE IF isSchoolFilterActive(s) THEN setStatus(s, "clearFilterToEdit")
  ELSE IF s.isPolygonEditing THEN closePolygonEditors(s)
  ELSE Spawn(s, Task("plugin", NoFile, "", Null))

togglePointsEditing(s) ==
  IF LayerEmpty(s.currentPointsLayer) THEN setStatus(s, "noPointsToEdit")
  ELSE IF isSchoolFilterActive(s) THEN setStatus(s, "clearFilterToEdit")
  ELSE setStatus(
         [s EXCEPT !.isPointsEditing = ~s.isPointsEditing,
                   !.currentPointsLayer = setMarkersDraggable(@, ~s.isPointsEditing)],
         IF s.isPointsEditing THEN "pointsEditOff" ELSE "pointsEditOn")

\* ------------------------------------------------------------ history list
\* loadHistoryList whose guard does not test the source (used to test C26).
loadHistoryListAnySource(s, force) ==
  IF s.currentFileName = NoFile
  THEN setHistoryOptions(s, {})
  ELSE LET school == getSelectedSchool(s)
           cacheKey == HistKey(s.currentFileName, school)
       IN  IF ~force /\ CacheHas(s, "historyList", cacheKey)
           THEN setHistoryOptions(s, cacheGet(s, "historyList", cacheKey))
           ELSE Spawn(s, Task("historyList", s.currentFileName, school, Null))

\* loadHistoryList up to its await: a cache hit is applied at once.
loadHistoryList(s, force) ==
  IF s.currentFileName = NoFile \/ s.currentFileSource # "server"
  THEN setHistoryOptions(s, {})
  ELSE LET school == getSelectedSchool(s)
           cacheKey == HistKey(s.currentFileName, school)
       IN  IF ~force /\ CacheHas(s, "historyList", cacheKey)
           THEN setHistoryOptions(s, cacheGet(s, "historyList", cacheKey))
           ELSE Spawn(s, Task("historyList", s.currentFileName, school, Null))

\* loadHistoryList after its fetch.
historyListDone(s, t, outcome) ==
  IF outcome = "ok"
  THEN setHistoryOptions(
         cacheSet(s, "historyList", HistKey(t.file, t.arg), HistoryList(t.file, t.arg)),
         HistoryList(t.file, t.arg))
  ELSE setHistoryOptions(setStatus(s, "historyListFailed"), {})

\* ------------------------------------------------------------ points, items
\* loadPointsForFile that takes a 404 for a failure (used to test C23).
pointsDoneNotFoundAsFailure(s, file, outcome, geojson) ==
  IF outcome \in {"404", "fail"} THEN setStatus(s, "pointsFailed")
  ELSE renderPointsGeoJSON([s EXCEPT !.originalPointsGeoJSON = cloneGeoJSON(geojson)],
                           filterGeoJSONBySchool(geojson, getSelectedSchool(s)), TRUE)

\* loadPointsForFile after fetchJsonWithCache returned (data) or threw.
pointsDone(s, file, outcome, geojson) ==
  IF outcome = "404" THEN setStatus(s, "points404")
  ELSE IF outcome = "fail" THEN setStatus(s, "pointsFailed")
  ELSE renderPointsGeoJSON([s EXCEPT !.originalPointsGeoJSON = cloneGeoJSON(geojson)],
                           filterGeoJSONBySchool(geojson, getSelectedSchool(s)), TRUE)

itemsDone(s, file, outcome, geojson) ==
  IF outcome = "404" THEN setStatus(s, "items404")
  ELSE IF outcome = "fail" THEN setStatus(s, "itemsFailed")
  ELSE renderItemsGeoJSON([s EXCEPT !.originalItemsGeoJSON = cloneGeoJSON(geojson)],
                          filterGeoJSONBySchool(geojson, getSelectedSchool(s)), TRUE)

\* The network's answer to a fetch, written through to the cache on success.
netPoints(s, file, outcome) ==
  pointsDone(IF outcome = "ok" THEN cacheSet(s, "points", file, ServerPoints(file)) ELSE s,
             file, outcome, ServerPoints(file))
netItems(s, file, outcome) ==
  itemsDone(IF outcome = "ok" THEN cacheSet(s, "items", file, ServerItems(file)) ELSE s,
            file, outcome, ServerItems(file))

\* loadPointsForFile / loadItemsForFile called without await (visibility
\* toggles, applySchoolFilter).
loadPointsForFile(s, file) ==
  IF CacheHas(s, "points", file)
  THEN pointsDone(s, file, "ok", cacheGet(s, "points", file))
  ELSE Spawn(s, Task("points", file, "", Null))

loadItemsForFile(s, file) ==
  IF CacheHas(s, "items", file)
  THEN itemsDone(s, file, "ok", cacheGet(s, "items", file))
  ELSE Spawn(s, Task("items", file, "", Null))

\* ------------------------------------------------------------ select file
\* loadSelectedFile, from its end backwards: after the items stage, after
\* the points stage, after the polygon fetch, and from the start.
selAfterItems(s) == loadHistoryList(s, FALSE)

selAfterPoints(s, file) ==
  IF s.showItems
  THEN IF CacheHas(s, "items", file)
       THEN selAfterItems(itemsDone(s, file, "ok", cacheGet(s, "items", file)))
       ELSE Spawn(s, Task("selItems", file, "", Null))
  ELSE selAfterItems(s)

selAfterPolygons(s, file, outcome, geojson) ==
  IF outcome # "ok" THEN setStatus(s, "loadFailed")
  ELSE LET s1 == renderGeoJSON(setSchoolOptions(s, geojson), geojson, FALSE)
       IN  IF s1.showPoints
           THEN IF CacheHas(s1, "points", file)
                THEN selAfterPoints(pointsDone(s1, file, "ok", cacheGet(s1, "points", file)), file)
                ELSE Spawn(s1, Task("selPoints", file, "", Null))
           ELSE selAfterPoints(s1, file)

netPolygons(s, file, outcome) ==
  selAfterPolygons(IF outcome = "ok" THEN cacheSet(s, "polygons", file, ServerPolygons(file)) ELSE s,
                   file, outcome, ServerPolygons(file))

\* loadSelectedFile that forgets clearAllLayers (used to test C11).
loadSelectedFileNoClear(s) ==
  LET file == s.fileSel
  IN  IF file = NoFile THEN s
      ELSE LET s1 == disableAllEditing([s EXCEPT !.currentFileName = file,
                                                 !.currentFileSource = "server"])
               s2 == setStatus([s1 EXCEPT !.schoolSel = "", !.historySel = ""], "loading")
           IN  IF CacheHas(s2, "polygons", file)
               THEN selAfterPolygons(s2, file, "ok", cacheGet(s2, "polygons", file))
               ELSE Spawn(s2, Task("selPolygons", file, "", Null))

loadSelectedFile(s) ==
  LET file == s.fileSel
  IN  IF file = NoFile THEN s
      ELSE LET s1 == disableAllEditing([s EXCEPT !.currentFileName = file,
                                                 !.currentFileSource = "server"])
               s2 == clearAllLayers(setStatus([s1 EXCEPT !.schoolSel = "", !.historySel = ""],
                                              "loading"))
           IN  IF CacheHas(s2, "polygons", file)
               THEN selAfterPolygons(s2, file, "ok", cacheGet(s2, "polygons", file))
               ELSE Spawn(s2, Task("selPolygons", file, "", Null))

\* ------------------------------------------------------------ history
\* applyHistoryData that takes every snapshot as the originals (used to
\* test C20).
applyHistoryDataTakeOriginal(s, data, asCurrent) ==
  LET s1 == [s EXCEPT !.currentFileName = IF data.file_name # "" THEN data.file_name ELSE @,
                      !.currentFileSource = IF asCurrent THEN "server" ELSE "history"]
      s2 == clearAllLayers(setSchoolValue(s1, data.school_name))
      s3 == IF data.polygons # Null THEN renderGeoJSON(s2, data.polygons, FALSE)
            ELSE clearPolygonLayer(s2)
      s4 == IF s3.showPoints /\ data.points # Null
            THEN renderPointsGeoJSON(s3, data.points, FALSE)
            ELSE clearPointsLayer(s3)
      s5 == clearItemsLayer(s4)
      s6 == IF s5.showItems THEN setStatus(s5, "historyNoItems") ELSE s5
  IN  IF asCurrent THEN [s6 EXCEPT !.historySel = ""] ELSE s6

\* applyHistoryData that never takes the snapshot as the originals (used to
\* test C18).
applyHistoryDataSkipOriginal(s, data, asCurrent) ==
  LET s1 == [s EXCEPT !.currentFileName = IF data.file_name # "" THEN data.file_name ELSE @,
                      !.currentFileSource = IF asCurrent THEN "server" ELSE "history"]
      s2 == clearAllLayers(setSchoolValue(s1, data.school_name))
      s3 == IF data.polygons # Null THEN renderGeoJSON(s2, data.polygons, TRUE)
            ELSE clearPolygonLayer(s2)
      s4 == IF s3.showPoints /\ data.points # Null
            THEN renderPointsGeoJSON(s3, data.points, TRUE)
            ELSE clearPointsLayer(s3)
      s5 == clearItemsLayer(s4)
      s6 == IF s5.showItems THEN setStatus(s5, "historyNoItems") ELSE s5
  IN  IF asCurrent THEN [s6 EXCEPT !.historySel = ""] ELSE s6

applyHistoryData(s, data, asCurrent) ==
  LET s1 == [s EXCEPT !.currentFileName = IF data.file_name # "" THEN data.file_name ELSE @,
                      !.currentFileSource = IF asCurrent THEN "server" ELSE "history"]
      s2 == clearAllLayers(setSchoolValue(s1, data.school_name))
      s3 == IF data.polygons # Null THEN renderGeoJSON(s2, data.polygons, ~asCurrent)
            ELSE clearPolygonLayer(s2)
      s4 == IF s3.showPoints /\ data.points # Null
            THEN renderPointsGeoJSON(s3, data.points, ~asCurrent)
            ELSE clearPointsLayer(s3)
      s5 == clearItemsLayer(s4)
      s6 == IF s5.showItems THEN setStatus(s5, "historyNoItems") ELSE s5
  IN  IF asCurrent THEN [s6 EXCEPT !.historySel = ""] ELSE s6

historyItemDone(s, outcome, data) ==
  IF outcome = "ok" THEN applyHistoryData(s, data, FALSE)
  ELSE setStatus(s, "historyFailed")

netHistoryItem(s, saveId, outcome) ==
  historyItemDone(IF outcome = "ok"
                  THEN cacheSet(s, "historyItem", saveId, HistorySnapshot(saveId)) ELSE s,
                  outcome, HistorySnapshot(saveId))

loadHistoryById(s, saveId) ==
  IF saveId = "" THEN s
  ELSE LET s1 == clearAllLayers(disableAllEditing(setStatus(s, "loadingHistory")))
       IN  IF CacheHas(s1, "historyItem", saveId)
           THEN historyItemDone(s1, "ok", cacheGet(s1, "historyItem", saveId))
           ELSE Spawn(s1, Task("historyItem", NoFile, saveId, Null))

restoreHistoryAsCurrent(s) ==
  IF s.historySel = "" THEN setStatus(s, "selectHistoryFirst")
  ELSE Spawn(setStatus(s, "restoring"), Task("restore", NoFile, s.historySel, Null))

\* restoreHistoryAsCurrent after its fetch (not through the cache).
restoreDone(s, saveId, outcome) ==
  IF outcome # "ok" THEN setStatus(s, "restoreFailed")
  ELSE loadHistoryList(
         setStatus(applyHistoryData(s, HistorySnapshot(saveId), TRUE), "restored"), FALSE)

\* ------------------------------------------------------------ mutants
\* Plausible slips of the handlers below, each used to show that a checked
\* formula depends on the handler it is about.

\* saveGeoJSON's guard without the test of the source.
saveGeoJSONRejectedNoSource(s) == s.currentFileName = NoFile

\* The save handlers without the school-filter guard.
saveClickNoFilterGuard(s, kind) ==
  LET layer == IF kind = "savePoints" THEN s.currentPointsLayer ELSE s.currentPolygonLayer
      geojson == overlaysToGeoJSON(layer, IF kind = "savePoints" THEN "Point" ELSE "Polygon")
  IN  IF LayerEmpty(layer) THEN setStatus(s, "nothingToSave")
      ELSE Spawn(setStatus(s, "saving"), Task(kind, s.currentFileName, "", geojson))

\* The save handlers' completion without the update of the original.
saveDoneNoOriginal(s, t, outcome) ==
  IF outcome # "ok" THEN setStatus(s, "saveFailed")
  ELSE setStatus(cacheSet(s, IF t.k = "savePoints" THEN "points" ELSE "polygons",
                          s.currentFileName, t.body), "saveOk")

\* saveGeoJSON that writes the cache before it looks at the answer (used to
\* test C27).
saveDoneStoreFirst(s, t, outcome) ==
  LET s1 == cacheSet(s, IF t.k = "savePoints" THEN "points" ELSE "polygons",
                     s.currentFileName, t.body)
  IN  IF outcome # "ok" THEN setStatus(s1, "saveFailed")
      ELSE IF t.k = "savePoints"
           THEN [setStatus(s1, "saveOk") EXCEPT !.originalPointsGeoJSON = cloneGeoJSON(t.body)]
           ELSE [setStatus(s1, "saveOk") EXCEPT !.originalPolygonGeoJSON = cloneGeoJSON(t.body)]

\* ------------------------------------------------------------ save
\* saveGeoJSON up to its POST. "rejected": it returned at its guard (which
\* its caller cannot tell from a completed save).
saveGeoJSONRejected(s) == s.currentFileName = NoFile \/ s.currentFileSource # "server"

saveGeoJSON(s, kind, geojson) ==
  IF saveGeoJSONRejected(s) THEN setStatus(s, "localPreviewOnly")
  ELSE Spawn(setStatus(s, "saving"), Task(kind, s.currentFileName, "", geojson))

SetOriginal(s, kind, geojson) ==
  IF kind = "savePoints" THEN [s EXCEPT !.originalPointsGeoJSON = cloneGeoJSON(geojson)]
  ELSE [s EXCEPT !.originalPolygonGeoJSON = cloneGeoJSON(geojson)]

\* The click handlers of savePolygonBtn and savePointsBtn up to the POST; the
\* statement after `await saveGeoJSON(..)` runs at once when saveGeoJSON
\* returned at its guard.
saveClick(s, kind) ==
  LET layer == IF kind = "savePoints" THEN s.currentPointsLayer ELSE s.currentPolygonLayer
      geojson == overlaysToGeoJSON(layer, IF kind = "savePoints" THEN "Point" ELSE "Polygon")
  IN  IF isSchoolFilterActive(s) THEN setStatus(s, "clearFilterToSave")
      ELSE IF LayerEmpty(layer) THEN setStatus(s, "nothingToSave")
      ELSE IF saveGeoJSONRejected(s) THEN SetOriginal(saveGeoJSON(s, kind, geojson), kind, geojson)
      ELSE saveGeoJSON(s, kind, geojson)

\* saveGeoJSON after the POST answered, and the rest of the click handler.
saveDone(s, t, outcome) ==
  IF outcome # "ok" THEN setStatus(s, "saveFailed")
  ELSE SetOriginal(
         setStatus(cacheSet(s, IF t.k = "savePoints" THEN "points" ELSE "polygons",
                            s.currentFileName, t.body), "saveOk"),
         t.k, t.body)

saveCurrentToDatabase(s) ==
  Spawn(setStatus(s, "savingAll"), Task("saveAll", NoFile, "", Null))

\* responseCache.historyList.clear()
clearHistoryListCache(s) ==
  [s EXCEPT !.responseCache =
     [x \in {y \in DOMAIN s.responseCache : y[1] # "historyList"} |-> s.responseCache[x]]]

saveAllDone(s, outcome) ==
  IF outcome # "ok" THEN setStatus(s, "saveAllFailed")
  ELSE LET s1 == setStatus(s, "savedAll")
       IN  IF s1.currentFileName # NoFile /\ s1.currentFileSource # "history"
           THEN loadHistoryList(clearHistoryListCache(s1), TRUE)
           ELSE s1

\* ------------------------------------------------------------ reset, filter
\* resetEdits that reloads the selected file whatever the source (used to
\* test C30).
resetEditsAlwaysReload(s) == loadSelectedFile(disableAllEditing(s))

resetEdits(s) ==
  LET s0 == disableAllEditing(s)
  IN  IF s0.currentFileSource = "server" THEN loadSelectedFile(s0)
      ELSE LET s1 == IF s0.originalPolygonGeoJSON # Null
                     THEN renderGeoJSON(clearAllLayers(s0), s0.originalPolygonGeoJSON, FALSE)
                     ELSE s0
               s2 == IF s1.originalPointsGeoJSON # Null /\ s1.showPoints
                     THEN renderPointsGeoJSON(s1, s1.originalPointsGeoJSON, FALSE)
                     ELSE s1
               s3 == IF s2.originalItemsGeoJSON # Null /\ s2.showItems
                     THEN renderItemsGeoJSON(s2, s2.originalItemsGeoJSON, FALSE)
                     ELSE s2
           IN  setStatus(s3, "resetDone")

\* applySchoolFilter that renders without skipOriginal (used to test C29).
applySchoolFilterTakeOriginal(s) ==
  IF s.historySel # "" THEN setStatus(s, "noFilterInHistory")
  ELSE LET school == getSelectedSchool(s)
           serverFile == s.currentFileSource = "server" /\ s.currentFileName # NoFile
           s1 == IF s.originalPolygonGeoJSON # Null
                 THEN renderGeoJSON(s, filterGeoJSONBySchool(s.originalPolygonGeoJSON, school), FALSE)
                 ELSE s
           s2 == IF s1.showPoints
                 THEN IF s1.originalPointsGeoJSON # Null
                      THEN renderPointsGeoJSON(
                             s1, filterGeoJSONBySchool(s1.originalPointsGeoJSON, school), FALSE)
                      ELSE IF serverFile THEN loadPointsForFile(s1, s1.currentFileName) ELSE s1
                 ELSE clearPointsLayer(s1)
       IN  IF s2.showItems
           THEN IF s2.originalItemsGeoJSON # Null
                THEN renderItemsGeoJSON(
                       s2, filterGeoJSONBySchool(s2.originalItemsGeoJSON, school), FALSE)
                ELSE IF serverFile THEN loadItemsForFile(s2, s2.currentFileName) ELSE s2
           ELSE clearItemsLayer(s2)

applySchoolFilter(s) ==
  IF s.historySel # "" THEN setStatus(s, "noFilterInHistory")
  ELSE LET school == getSelectedSchool(s)
           serverFile == s.currentFileSource = "server" /\ s.currentFileName # NoFile
           s1 == IF s.originalPolygonGeoJSON # Null
                 THEN renderGeoJSON(s, filterGeoJSONBySchool(s.originalPolygonGeoJSON, school), TRUE)
                 ELSE s
           s2 == IF s1.showPoints
                 THEN IF s1.originalPointsGeoJSON # Null
                      THEN renderPointsGeoJSON(
                             s1, filterGeoJSONBySchool(s1.originalPointsGeoJSON, school), TRUE)
                      ELSE IF serverFile THEN loadPointsForFile(s1, s1.currentFileName) ELSE s1
                 ELSE clearPointsLayer(s1)
       IN  IF s2.showItems
           THEN IF s2.originalItemsGeoJSON # Null
                THEN renderItemsGeoJSON(
                       s2, filterGeoJSONBySchool(s2.originalItemsGeoJSON, school), TRUE)
                ELSE IF serverFile THEN loadItemsForFile(s2, s2.currentFileName) ELSE s2
           ELSE clearItemsLayer(s2)

\* The change handlers of schoolSelect and historySelect, after the operator
\* chose value v.
schoolSelectChange(s, v) ==
  LET s1 == disableAllEditing([s EXCEPT !.schoolSel = v])
  IN  loadHistoryList(applySchoolFilter([s1 EXCEPT !.historySel = ""]), FALSE)

historySelectChange(s, v) ==
  LET s1 == disableAllEditing([s EXCEPT !.historySel = v])
  IN  IF v = "" THEN loadSelectedFile([s1 EXCEPT !.currentFileSource = "server"])
      ELSE loadHistoryById(s1, v)

\* ------------------------------------------------------------ visibility
showPointsChange(s) ==
  LET s1 == [s EXCEPT !.showPoints = ~@]
  IN  IF s1.showPoints
      THEN (IF s1.fileSel # NoFile THEN loadPointsForFile(s1, s1.fileSel) ELSE s1)
      ELSE clearPointsLayer(s1)

showItemsChange(s) ==
  LET s1 == [s EXCEPT !.showItems = ~@]
  IN  IF s1.showItems
      THEN (IF s1.fileSel # NoFile THEN loadItemsForFile(s1, s1.fileSel) ELSE s1)
      ELSE clearItemsLayer(s1)

\* ------------------------------------------------------------ local file
\* reader.onload that takes the file over before it parses the text (used to
\* test C24).
readerOnloadParseLast(s, name, parses) ==
  LET s1 == disableAllEditing([s EXCEPT !.currentFileName = name,
                                        !.currentFileSource = "local"])
      s2 == setHistoryOptions([s1 EXCEPT !.schoolSel = "", !.historySel = ""], {})
  IN  IF ~parses THEN setStatus(clearAllLayers(s2), "parseFailed")
      ELSE renderGeoJSON(setSchoolOptions(clearAllLayers(s2), LocalGeoJSON), LocalGeoJSON, FALSE)

\* reader.onload: the text parses (to LocalGeoJSON) or JSON.parse throws.
readerOnload(s, name, parses) ==
  IF ~parses THEN setStatus(s, "parseFailed")
  ELSE LET s1 == disableAllEditing([s EXCEPT !.currentFileName = name,
                                             !.currentFileSource = "local"])
           s2 == setHistoryOptions([s1 EXCEPT !.schoolSel = "", !.historySel = ""], {})
       IN  renderGeoJSON(setSchoolOptions(clearAllLayers(s2), LocalGeoJSON), LocalGeoJSON, FALSE)

\* ------------------------------------------------------------ edits
\* A vertex drag on polygon overlay i (its editor is open), a drag of marker
\* i of the points layer (it is draggable), and the click on marker i that
\* prompts for a new position while the points session is on.
CanEdit(pos) == pos % 10 < MaxEdit
dragVertex(s, i) == [s EXCEPT !.currentPolygonLayer.overlays[i].pos = @ + 1]
moveMarker(s, i) == [s EXCEPT !.currentPointsLayer.overlays[i].pos = @ + 1]
repositionMarker(s, i) == setStatus(moveMarker(s, i), "positionUpdated")

\* ------------------------------------------------------------ the machine
\* After initMap and the first loadIndex: nothing selected, nothing loaded.
SessionInit ==
  /\ fileSel = NoFile
  /\ schoolSel = ""
  /\ schoolOptions = {}
  /\ historySel = ""
  /\ historyOptions = {}
  /\ showPoints = FALSE
  /\ showItems = FALSE
  /\ currentPolygonLayer = LayerNull
  /\ currentPointsLayer = LayerNull
  /\ currentItemsLayer = LayerNull
  /\ polygonEditors = 0
  /\ isPolygonEditing = FALSE
  /\ isPointsEditing = FALSE
  /\ originalPolygonGeoJSON = Null
  /\ originalPointsGeoJSON = Null
  /\ originalItemsGeoJSON = Null
  /\ currentFileName = NoFile
  /\ currentFileSource = "server"
  /\ responseCache = [x \in {} |-> Null]
  /\ status = "init"
  /\ tasks = {}
  /\ intents = 0

\* The cache is empty when the script has loaded.
CacheInit ==
  /\ now = 0
  /\ ticks = 0
  /\ timedCache = [x \in {} |-> 0]
  /\ fetches = {}
  /\ ret = [op |-> "none", x |-> <<"", "">>, val |-> "absent"]
  /\ lastSet = [x \in {} |-> 0]

\* No call of filterGeoJSONBySchool with drawn arguments is under way.
FilterIdle ==
  /\ geojsonArg = Null
  /\ schoolNameArg = ""
  /\ filtered = Null
  /\ refiltered = Null
  /\ filterStage = 0

Init == SessionInit /\ CacheInit /\ FilterIdle

\* The state with suspended handler t taken out, about to be resumed.
Resumed(t) == [Cur EXCEPT !.tasks = @ \ {t}]

\* What the backend may answer to a GET of a layer: the collection it holds,
\* 404 when it holds none, or a failure (status or transport).
Outcomes(data) == (IF data = Null THEN {"404"} ELSE {"ok"}) \cup {"fail"}

\* ---- the operator's intents
SelectFile(f) ==
  /\ f # fileSel
  /\ Intent(loadSelectedFile([Cur EXCEPT !.fileSel = f]))

ReloadClick == fileSel # NoFile /\ Intent(loadSelectedFile(Cur))

SelectSchool(v) ==
  /\ v # schoolSel
  /\ Intent(schoolSelectChange(Cur, v))

SelectHistory(v) ==
  /\ v # historySel
  /\ Intent(historySelectChange(Cur, v))

\* The promote operation. The script looks the restore button up and defines
\* the operation; this action is a call of the operation.
RestoreClick == Intent(restoreHistoryAsCurrent(Cur))
ToggleShowPoints == Intent(showPointsChange(Cur))
ToggleShowItems == Intent(showItemsChange(Cur))
EditPolygonClick == Intent(togglePolygonEditing(Cur))
EditPointsClick == Intent(togglePointsEditing(Cur))
SavePolygonClick == Intent(saveClick(Cur, "savePolygons"))
SavePointsClick == Intent(saveClick(Cur, "savePoints"))
SaveDbClick == Intent(saveCurrentToDatabase(Cur))
ResetClick == Intent(resetEdits(Cur))
OpenLocalFile(parses) ==
  Intent(Spawn(Cur, Task("readFile", LocalName, IF parses THEN "ok" ELSE "bad", Null)))

DragVertex(i) ==
  /\ currentPolygonLayer.overlays[i].editor
  /\ CanEdit(currentPolygonLayer.overlays[i].pos)
  /\ Gesture(dragVertex(Cur, i))

MoveMarker(i) ==
  /\ currentPointsLayer.overlays[i].cls = "Marker"
  /\ currentPointsLayer.overlays[i].draggable
  /\ CanEdit(currentPointsLayer.overlays[i].pos)
  /\ Gesture(moveMarker(Cur, i))

RepositionMarker(i) ==
  /\ currentPointsLayer.overlays[i].cls = "Marker"
  /\ isPointsEditing
  /\ CanEdit(currentPointsLayer.overlays[i].pos)
  /\ Gesture(repositionMarker(Cur, i))

\* ---- resumptions
ResumeSelPolygons(t, outcome) ==
  t.k = "selPolygons" /\ Async(netPolygons(Resumed(t), t.file, outcome))
ResumeSelPoints(t, outcome) ==
  /\ t.k = "selPoints" /\ outcome \in Outcomes(ServerPoints(t.file))
  /\ Async(selAfterPoints(netPoints(Resumed(t), t.file, outcome), t.file))
ResumeSelItems(t, outcome) ==
  /\ t.k = "selItems" /\ outcome \in Outcomes(ServerItems(t.file))
  /\ Async(selAfterItems(netItems(Resumed(t), t.file, outcome)))
ResumePoints(t, outcome) ==
  /\ t.k = "points" /\ outcome \in Outcomes(ServerPoints(t.file))
  /\ Async(netPoints(Resumed(t), t.file, outcome))
ResumeItems(t, outcome) ==
  /\ t.k = "items" /\ outcome \in Outcomes(ServerItems(t.file))
  /\ Async(netItems(Resumed(t), t.file, outcome))
ResumeHistoryList(t, outcome) ==
  t.k = "historyList" /\ Async(historyListDone(Resumed(t), t, outcome))
ResumeHistoryItem(t, outcome) ==
  t.k = "historyItem" /\ Async(netHistoryItem(Resumed(t), t.arg, outcome))
ResumeRestore(t, outcome) ==
  t.k = "restore" /\ Async(restoreDone(Resumed(t), t.arg, outcome))
ResumeSave(t, outcome) ==
  t.k \in {"savePolygons", "savePoints"} /\ Async(saveDone(Resumed(t), t, outcome))
ResumeSaveAll(t, outcome) ==
  t.k = "saveAll" /\ Async(saveAllDone(Resumed(t), outcome))
PluginLoaded(t) ==
  t.k = "plugin" /\ Async(pluginCallback(Resumed(t)))
ReaderLoaded(t) ==
  t.k = "readFile" /\ Async(readerOnload(Resumed(t), t.file, t.arg = "ok"))

\* More than CACHE_TTL_MS passed since entry x was set: the next read of it
\* deletes it and reports it absent.
Expire(x) ==
  Intent([Cur EXCEPT !.responseCache = [y \in (DOMAIN responseCache) \ {x} |-> responseCache[y]]])

Next ==
  \/ \E f \in Files \cup {NoFile} : SelectFile(f)
  \/ ReloadClick
  \/ \E v \in schoolOptions \cup {""} : SelectSchool(v)
  \/ \E v \in historyOptions \cup {""} : SelectHistory(v)
  \/ RestoreClick
  \/ ToggleShowPoints
  \/ ToggleShowItems
  \/ EditPolygonClick
  \/ EditPointsClick
  \/ SavePolygonClick
  \/ SavePointsClick
  \/ SaveDbClick
  \/ ResetClick
  \/ \E parses \in BOOLEAN : OpenLocalFile(parses)
  \/ \E i \in DOMAIN currentPolygonLayer.overlays : DragVertex(i)
  \/ \E i \in DOMAIN currentPointsLayer.overlays : MoveMarker(i)
  \/ \E i \in DOMAIN currentPointsLayer.overlays : RepositionMarker(i)
  \/ \E t \in tasks, outcome \in {"ok", "fail"} : ResumeSelPolygons(t, outcome)
  \/ \E t \in tasks, outcome \in {"ok", "404", "fail"} : ResumeSelPoints(t, outcome)
  \/ \E t \in tasks, outcome \in {"ok", "404", "fail"} : ResumeSelItems(t, outcome)
  \/ \E t \in tasks, outcome \in {"ok", "404", "fail"} : ResumePoints(t, outcome)
  \/ \E t \in tasks, outcome \in {"ok", "404", "fail"} : ResumeItems(t, outcome)
  \/ \E t \in tasks, outcome \in {"ok", "fail"} : ResumeHistoryList(t, outcome)
  \/ \E t \in tasks, outcome \in {"ok", "fail"} : ResumeHistoryItem(t, outcome)
  \/ \E t \in tasks, outcome \in {"ok", "fail"} : ResumeRestore(t, outcome)
  \/ \E t \in tasks, outcome \in {"ok", "fail"} : ResumeSave(t, outcome)
  \/ \E t \in tasks, outcome \in {"ok", "fail"} : ResumeSaveAll(t, outcome)
  \/ \E t \in tasks : PluginLoaded(t)
  \/ \E t \in tasks : ReaderLoaded(t)
  \/ \E x \in DOMAIN responseCache : Expire(x)

Spec == Init /\ [][Next]_vars

\* ------------------------------------------------------------ properties
layers == <<currentPolygonLayer, currentPointsLayer, currentItemsLayer>>
originals == <<originalPolygonGeoJSON, originalPointsGeoJSON, originalItemsGeoJSON>>
\* Everything but the status line and the count of intents.
allButStatus ==
  <<fileSel, schoolSel, schoolOptions, historySel, historyOptions, showPoints,
    showItems, layers, polygonEditors, isPolygonEditing, isPointsEditing,
    originals, currentFileName, currentFileSource, responseCache, tasks>>

SaveKinds == {"savePolygons", "savePoints"}
SaveClick == SavePolygonClick \/ SavePointsClick

\* The resumption of load t (a polygon, points, items or history-snapshot
\* request), whatever the answer.
LoadResume(t) ==
  \E outcome \in {"ok", "404", "fail"} :
    \/ ResumeSelPolygons(t, outcome)
    \/ ResumeSelPoints(t, outcome)
    \/ ResumeSelItems(t, outcome)
    \/ ResumePoints(t, outcome)
    \/ ResumeItems(t, outcome)
    \/ ResumeHistoryItem(t, outcome)

\* Load t was issued for a file context that is no longer the active one:
\* another file is current, or a local file or a history version is shown
\* (for a history-snapshot request: another version, or none, is selected).
Stale(t) ==
  IF t.k = "historyItem" THEN historySel # t.arg
  ELSE currentFileName # t.file \/ currentFileSource # "server"

\* C1: a load that resolves after the file context changed is not applied:
\* it changes no layer, not currentFileName, currentFileSource, the school
\* options or an original snapshot.
C1_StaleFetchNotApplied ==
  [][\A t \in tasks :
       Stale(t) /\ LoadResume(t) =>
         UNCHANGED <<layers, originals, currentFileName, currentFileSource, schoolOptions>>]_vars

\* C2: an active edit session (polygon or points) excludes a selected
\* school filter, in every reachable state.
C2_EditExcludesFilter ==
  (isPolygonEditing \/ isPointsEditing) => schoolSel = ""

\* C3: an active edit session's layer holds at least one rendered overlay.
C3_EditImpliesOverlays ==
  /\ isPolygonEditing => ~LayerEmpty(currentPolygonLayer)
  /\ isPointsEditing => ~LayerEmpty(currentPointsLayer)

\* The steps that render a fresh load into a layer (from the server or the
\* cache of server responses, a local file or a promoted history version).
\* A filter change loads a visible layer that has no original yet.
FreshLoadStep ==
  \/ \E f \in Files \cup {NoFile} : SelectFile(f)
  \/ ReloadClick
  \/ ResetClick /\ currentFileSource = "server"
  \/ SelectHistory("")
  \/ ToggleShowPoints /\ UNCHANGED <<originalPolygonGeoJSON, originalItemsGeoJSON>>
  \/ ToggleShowItems /\ UNCHANGED <<originalPolygonGeoJSON, originalPointsGeoJSON>>
  \/ /\ \E v \in schoolOptions \cup {""} : SelectSchool(v)
     /\ UNCHANGED originalPolygonGeoJSON
     /\ originalPointsGeoJSON' # originalPointsGeoJSON => originalPointsGeoJSON = Null
     /\ originalItemsGeoJSON' # originalItemsGeoJSON => originalItemsGeoJSON = Null
  \/ \E t \in tasks :
       \/ t.k # "historyItem" /\ LoadResume(t)
       \/ ResumeRestore(t, "ok")
       \/ ReaderLoaded(t)
\* The completion of a save that the backend accepted.
AcceptedSaveStep == \E t \in tasks : ResumeSave(t, "ok")

\* C4: an original snapshot changes only in the render of a fresh load or in
\* the completion of an accepted save.
C4_OriginalChangesOnlyOnLoadOrSave ==
  [][originals' # originals => FreshLoadStep \/ AcceptedSaveStep]_vars

\* C5: a save of a layer while no file is active or the source is not
\* "server" issues no request.
C5_NoSaveRequestUnlessServer ==
  [][SaveClick /\ (currentFileName = NoFile \/ currentFileSource # "server")
       => tasks' = tasks]_vars
\* A save was rejected because the source is not the server.
C5_Witness ==
  /\ status = "localPreviewOnly"
  /\ currentFileSource # "server"
  /\ ~LayerEmpty(currentPolygonLayer)
  /\ tasks = {}

\* C6: a save while a school filter is selected issues no request and
\* changes neither the cache nor an original snapshot.
C6_NoSaveWhileFiltered ==
  [][SaveClick /\ schoolSel # "" => UNCHANGED <<tasks, responseCache, originals>>]_vars
\* A save of a rendered, filtered layer of a server file was rejected.
C6_Witness ==
  /\ status = "clearFilterToSave"
  /\ schoolSel # ""
  /\ currentFileSource = "server"
  /\ ~LayerEmpty(currentPolygonLayer)

CacheKindOf(k) == IF k = "savePoints" THEN "points" ELSE "polygons"
OriginalOf(k) == IF k = "savePoints" THEN originalPointsGeoJSON ELSE originalPolygonGeoJSON

\* C7: when the backend accepts a save of layer L sent for file F and F is
\* still the current file, the cache entry (L, F) and L's original snapshot
\* are the collection that was sent.
C7_AcceptedSaveUpdatesCacheAndOriginal ==
  [][\A t \in tasks :
       t.k \in SaveKinds /\ t.file = currentFileName /\ ResumeSave(t, "ok") =>
         /\ <<CacheKindOf(t.k), t.file>> \in DOMAIN responseCache'
         /\ responseCache'[<<CacheKindOf(t.k), t.file>>] = t.body
         /\ OriginalOf(t.k)' = t.body]_vars
\* A polygon layer that differs from what the backend held (edited, or a
\* MultiPolygon read back as Polygons) was saved and accepted.
C7_Witness ==
  /\ status = "saveOk"
  /\ currentFileName \in Files
  /\ <<"polygons", currentFileName>> \in DOMAIN responseCache
  /\ responseCache[<<"polygons", currentFileName>>] = originalPolygonGeoJSON
  /\ originalPolygonGeoJSON # ServerPolygons(currentFileName)

\* C8: an edit toggle from Viewing changes nothing but the status line when
\* its layer has no overlay or a school filter is selected.
C8_ToggleOnRejected ==
  [][/\ (EditPolygonClick /\ ~isPolygonEditing
           /\ (LayerEmpty(currentPolygonLayer) \/ schoolSel # "")
         => UNCHANGED allButStatus)
     /\ (EditPointsClick /\ ~isPointsEditing
           /\ (LayerEmpty(currentPointsLayer) \/ schoolSel # "")
         => UNCHANGED allButStatus)]_vars
\* An edit toggle on a rendered layer was rejected for the filter.
C8_Witness ==
  /\ status = "clearFilterToEdit"
  /\ schoolSel # ""
  /\ ~LayerEmpty(currentPolygonLayer)
  /\ ~isPolygonEditing /\ ~isPointsEditing
  /\ tasks = {}

\* C9: while a history version is viewed, an edit toggle turns no edit
\* session on (and starts no editor plugin).
C9_NoEditInHistory ==
  [][(EditPolygonClick \/ EditPointsClick) /\ currentFileSource = "history"
       => /\ ~isPolygonEditing' /\ ~isPointsEditing'
          /\ tasks' = tasks]_vars

RECURSIVE NoHandles(_)
\* No overlay has an open editor or is draggable.
NoHandles(ovs) ==
  ovs = <<>> \/ (~Head(ovs).editor /\ ~Head(ovs).draggable /\ NoHandles(Tail(ovs)))

\* The context-changing intents: select file, local file read, select a
\* history version, promote, change the school filter.
ContextIntent ==
  \/ \E f \in Files : SelectFile(f)
  \/ \E t \in tasks : t.arg = "ok" /\ ReaderLoaded(t)
  \/ \E v \in historyOptions : SelectHistory(v)
  \/ historySel # "" /\ RestoreClick
  \/ \E v \in schoolOptions \cup {""} : SelectSchool(v)

\* C10: right after a context-changing intent starts, both edit sessions are
\* inactive, no editor is open and no marker is draggable.
C10_ContextChangeDisablesEditing ==
  [][ContextIntent =>
       /\ ~isPolygonEditing' /\ ~isPointsEditing' /\ polygonEditors' = 0
       /\ NoHandles(currentPolygonLayer'.overlays)
       /\ NoHandles(currentPointsLayer'.overlays)]_vars

\* ---- C11
\* The select-file (or reload) step that issues the polygon request for file f.
SelectIssues(f) ==
  /\ SelectFile(f) \/ (ReloadClick /\ fileSel = f)
  /\ <<"polygons", f>> \notin DOMAIN responseCache

\* C11: at the moment the polygon request for the newly selected file is
\* issued, the three layers are empty, both edit sessions are inactive, the
\* school filter and the history selection are cleared, and currentFileName
\* and currentFileSource name the new server file.
C11_SelectFileAtomic ==
  [][\A f \in Files : SelectIssues(f) =>
       /\ Task("selPolygons", f, "", Null) \in tasks'
       /\ LayerEmpty(currentPolygonLayer') /\ LayerEmpty(currentPointsLayer')
       /\ LayerEmpty(currentItemsLayer')
       /\ ~isPolygonEditing' /\ ~isPointsEditing'
       /\ schoolSel' = "" /\ historySel' = ""
       /\ currentFileName' = f /\ currentFileSource' = "server"]_vars

\* File B was selected after file A had been loaded and rendered: B's polygon
\* request is pending and nothing of A is left on screen.
C11_Witness ==
  /\ Task("selPolygons", "B", "", Null) \in tasks
  /\ status = "loading" /\ currentFileName = "B"
  /\ <<"polygons", "A">> \in DOMAIN responseCache
  /\ originalPolygonGeoJSON = ServerPolygons("A")
  /\ LayerEmpty(currentPolygonLayer)

\* ============================================================ the cache
\* The response cache with its timestamps and the clock. Specification Spec
\* above keeps of the cache only what a read at the present time returns
\* (responseCache, with Expire for the passing of CACHE_TTL_MS); CacheSpec
\* runs cacheGet, cacheSet and fetchJsonWithCache against Date.now().
CACHE_TTL_MS == 5 * 60 * 1000

\* The entries exercised: two kinds under one key; two response bodies
\* (JSON objects, so truthy); null for "no entry" / "no value".
CacheSlots == {<<"polygons", "A">>, <<"points", "A">>}
Payloads == {"d1", "d2"}
Absent == "absent"

\* map.delete(key)
MapDelete(map, key) == [y \in (DOMAIN map) \ {key} |-> map[y]]

\* cacheGet that takes an entry of age CACHE_TTL_MS for expired (used to
\* test C12).
cacheGetAtEarly(map, key, t) ==
  IF key \notin DOMAIN map THEN [map |-> map, data |-> Absent]
  ELSE IF t - map[key].ts >= CACHE_TTL_MS
       THEN [map |-> MapDelete(map, key), data |-> Absent]
       ELSE [map |-> map, data |-> map[key].data]

\* cacheGet(map, key) at time t: the value returned and the map afterwards
\* (an entry found expired is deleted).
cacheGetAt(map, key, t) ==
  IF key \notin DOMAIN map THEN [map |-> map, data |-> Absent]
  ELSE IF t - map[key].ts > CACHE_TTL_MS
       THEN [map |-> MapDelete(map, key), data |-> Absent]
       ELSE [map |-> map, data |-> map[key].data]

\* cacheSet(map, key, data) at time t.
cacheSetAt(map, key, data, t) ==
  [y \in (DOMAIN map) \cup {key} |->
     IF y = key THEN [ts |-> t, data |-> data] ELSE map[y]]

Returned(op, x, val) == [op |-> op, x |-> x, val |-> val]
FreeId == CHOOSE i \in 1..(MaxFetches + 1) : \A c \in fetches : c.id # i

\* fetchJsonWithCache that reads the cache even when forced (used to test C13).
FetchCallIgnoreForce(x, force) ==
  LET g == cacheGetAt(timedCache, x, now)
  IN  /\ UNCHANGED <<sessionVars, filterVars>>
      /\ IF g.data # Absent
         THEN /\ timedCache' = g.map
              /\ ret' = Returned("fetch", x, g.data)
              /\ UNCHANGED <<now, ticks, fetches, lastSet>>
         ELSE /\ Cardinality(fetches) < MaxFetches
              /\ timedCache' = g.map
              /\ fetches' = fetches \cup {[id |-> FreeId, x |-> x, force |-> force]}
              /\ UNCHANGED <<now, ticks, ret, lastSet>>

\* fetchJsonWithCache that returns the response without storing it (used to
\* test C14).
FetchResolveNoStore(c, outcome, d) ==
  /\ fetches' = fetches \ {c}
  /\ ret' = Returned("fetch", c.x, IF outcome = "ok" THEN d ELSE "error")
  /\ UNCHANGED <<timedCache, lastSet, now, ticks>>
  /\ UNCHANGED <<sessionVars, filterVars>>

\* fetchJsonWithCache that drops the entry of a request that failed (used to
\* test C15).
FetchResolveDropOnFail(c, outcome, d) ==
  /\ fetches' = fetches \ {c}
  /\ IF outcome = "ok"
     THEN /\ timedCache' = cacheSetAt(timedCache, c.x, d, now)
          /\ lastSet' = cacheSetAt(lastSet, c.x, d, now)
          /\ ret' = Returned("fetch", c.x, d)
     ELSE /\ ret' = Returned("fetch", c.x, "error")
          /\ timedCache' = MapDelete(timedCache, c.x)
          /\ UNCHANGED lastSet
  /\ UNCHANGED <<now, ticks>>
  /\ UNCHANGED <<sessionVars, filterVars>>

\* A read of the cache (as fetchJsonWithCache makes it).
CacheGet(x) ==
  LET g == cacheGetAt(timedCache, x, now)
  IN  /\ timedCache' = g.map
      /\ ret' = Returned("get", x, g.data)
      /\ UNCHANGED <<now, ticks, fetches, lastSet>>
      /\ UNCHANGED <<sessionVars, filterVars>>

\* A write of the cache (as saveGeoJSON makes it after an accepted save).
CacheSet(x, d) ==
  /\ timedCache' = cacheSetAt(timedCache, x, d, now)
  /\ lastSet' = cacheSetAt(lastSet, x, d, now)
  /\ UNCHANGED <<now, ticks, fetches, ret>>
  /\ UNCHANGED <<sessionVars, filterVars>>

\* fetchJsonWithCache(url, cacheMap, cacheKey, force) up to its return on a
\* hit or its suspension at fetch(url).
FetchCall(x, force) ==
  LET g == cacheGetAt(timedCache, x, now)
  IN  /\ UNCHANGED <<sessionVars, filterVars>>
      /\ IF ~force /\ g.data # Absent
         THEN /\ timedCache' = g.map
              /\ ret' = Returned("fetch", x, g.data)
              /\ UNCHANGED <<now, ticks, fetches, lastSet>>
         ELSE /\ Cardinality(fetches) < MaxFetches
              /\ timedCache' = (IF force THEN timedCache ELSE g.map)
              /\ fetches' = fetches \cup {[id |-> FreeId, x |-> x, force |-> force]}
              /\ UNCHANGED <<now, ticks, ret, lastSet>>

\* fetchJsonWithCache after its fetch: the response is ok with body d, or
\* the request failed (transport failure or non-success status: it throws).
FetchResolve(c, outcome, d) ==
  /\ fetches' = fetches \ {c}
  /\ IF outcome = "ok"
     THEN /\ timedCache' = cacheSetAt(timedCache, c.x, d, now)
          /\ lastSet' = cacheSetAt(lastSet, c.x, d, now)
          /\ ret' = Returned("fetch", c.x, d)
     ELSE /\ ret' = Returned("fetch", c.x, "error")
          /\ UNCHANGED <<timedCache, lastSet>>
  /\ UNCHANGED <<now, ticks>>
  /\ UNCHANGED <<sessionVars, filterVars>>

\* Time passes: a millisecond, or CACHE_TTL_MS.
Tick(d) ==
  /\ ticks < MaxTicks
  /\ ticks' = ticks + 1
  /\ now' = now + d
  /\ UNCHANGED <<timedCache, fetches, ret, lastSet>>
  /\ UNCHANGED <<sessionVars, filterVars>>

CacheNext ==
  \/ \E x \in CacheSlots : CacheGet(x)
  \/ \E x \in CacheSlots, d \in Payloads : CacheSet(x, d)
  \/ \E x \in CacheSlots, force \in BOOLEAN : FetchCall(x, force)
  \/ \E c \in fetches, d \in Payloads : FetchResolve(c, "ok", d)
  \/ \E c \in fetches : FetchResolve(c, "fail", "d1")
  \/ \E d \in {1, CACHE_TTL_MS} : Tick(d)

CacheSpec == Init /\ [][CacheNext]_vars

\* ---- C12 .. C15
\* The entry last set under x is within its TTL now.
Fresh(x) == x \in DOMAIN lastSet /\ now - lastSet[x].ts <= CACHE_TTL_MS
\* The step issues a request for x.
Issues(x, force) ==
  /\ Cardinality(fetches') = Cardinality(fetches) + 1
  /\ \E c \in fetches' \ fetches : c.x = x /\ c.force = force
\* Every entry but the one under x is as it was.
OthersKept(x) ==
  \A y \in CacheSlots \ {x} :
     /\ (y \in DOMAIN timedCache') = (y \in DOMAIN timedCache)
     /\ y \in DOMAIN timedCache => timedCache'[y] = timedCache[y]

\* C12: cacheGet after cacheSet of the same (kind, key) returns the stored
\* value while the entry's age is within CACHE_TTL_MS (5 minutes), and
\* absent once the age exceeds it.
C12_GetAfterSet ==
  [][\A x \in CacheSlots : CacheGet(x) /\ x \in DOMAIN lastSet =>
       ret' = Returned("get", x, IF Fresh(x) THEN lastSet[x].data ELSE Absent)]_vars

\* A read found the entry last set expired: the clock has passed its TTL.
C12_Witness ==
  /\ ret.op = "get" /\ ret.val = Absent
  /\ ret.x \in DOMAIN lastSet
  /\ now - lastSet[ret.x].ts > CACHE_TTL_MS

\* C13: a forced fetchJsonWithCache always issues a request, whatever the
\* age of the entry, and on success overwrites the entry with the fresh
\* value and a new timestamp.
C13_ForcedReadRefreshes ==
  [][/\ \A x \in CacheSlots : FetchCall(x, TRUE) =>
          Issues(x, TRUE) /\ ret' = ret /\ timedCache' = timedCache
     /\ \A c \in fetches, d \in Payloads : c.force /\ FetchResolve(c, "ok", d) =>
          /\ c.x \in DOMAIN timedCache'
          /\ timedCache'[c.x] = [ts |-> now, data |-> d]
          /\ ret' = Returned("fetch", c.x, d)]_vars

\* A forced request is pending although the entry under its key is fresh.
C13_Witness ==
  \E c \in fetches : c.force /\ Fresh(c.x) /\ c.x \in DOMAIN timedCache /\ now > 0

\* C14: a non-forced fetchJsonWithCache with an unexpired entry returns the
\* cached value and issues no request; with the entry missing or expired it
\* issues exactly one request and, on success, stores the response under the
\* same (kind, key) and returns it.
C14_CacheFirstRead ==
  [][/\ \A x \in CacheSlots : FetchCall(x, FALSE) =>
          IF Fresh(x)
          THEN /\ fetches' = fetches
               /\ ret' = Returned("fetch", x, lastSet[x].data)
               /\ timedCache' = timedCache
          ELSE Issues(x, FALSE) /\ ret' = ret
     /\ \A c \in fetches, d \in Payloads : ~c.force /\ FetchResolve(c, "ok", d) =>
          /\ c.x \in DOMAIN timedCache'
          /\ timedCache'[c.x].data = d
          /\ OthersKept(c.x)
          /\ ret' = Returned("fetch", c.x, d)]_vars

\* One key was served from its fresh entry set earlier, while a non-forced
\* request is pending for another key whose entry had expired.
C14_Witness ==
  /\ ret.op = "fetch" /\ Fresh(ret.x) /\ ret.val = lastSet[ret.x].data
  /\ now > lastSet[ret.x].ts
  /\ \E c \in fetches :
        ~c.force /\ c.x # ret.x /\ c.x \in DOMAIN lastSet /\ c.x \notin DOMAIN timedCache

\* A step of a fetchJsonWithCache call that can end in failure: the call up
\* to its request, and the failure of the request.
CallToRequest(x, force) == FetchCall(x, force) /\ fetches' # fetches
RequestFails(c) == FetchResolve(c, "fail", "d1")

\* C15 as stated: when fetchJsonWithCache fails it raises a fetch error and
\* the cache content after the call is identical to the content before the
\* call, for every (kind, key) including the requested one, forced or not.
C15_FailedFetchLeavesCacheIdentical ==
  [][/\ \A c \in fetches : RequestFails(c) =>
          ret' = Returned("fetch", c.x, "error") /\ timedCache' = timedCache
     /\ \A x \in CacheSlots, force \in BOOLEAN : CallToRequest(x, force) =>
          timedCache' = timedCache]_vars

\* C15 amended: when fetchJsonWithCache fails it raises a fetch error, no
\* entry is added or changed, and the only entry that can be gone is the
\* requested one, deleted by the non-forced read that found it expired.
C15_FailedFetchKeepsEntries ==
  [][/\ \A c \in fetches : RequestFails(c) =>
          ret' = Returned("fetch", c.x, "error") /\ timedCache' = timedCache
     /\ \A x \in CacheSlots, force \in BOOLEAN : CallToRequest(x, force) =>
          \/ timedCache' = timedCache
          \/ /\ ~force /\ x \in DOMAIN timedCache /\ ~Fresh(x)
             /\ timedCache' = MapDelete(timedCache, x)]_vars

\* A request failed for a key whose expired entry is gone, while the entry
\* of the other key is still held.
C15_Witness ==
  /\ ret.op = "fetch" /\ ret.val = "error"
  /\ ret.x \in DOMAIN lastSet /\ ret.x \notin DOMAIN timedCache
  /\ \E y \in CacheSlots \ {ret.x} : y \in DOMAIN timedCache

\* ============================================================ the filter
\* filterGeoJSONBySchool applied to a drawn collection and school name, and
\* applied again to its own result.
FilterSchools == {"", "X", "Y"}
FilterFeatures == {Feat("Polygon", <<c>>, s) : c \in {1, 2}, s \in FilterSchools}
SeqsUpTo(S, n) == UNION {[1..k -> S] : k \in 0..n}
\* null, FeatureCollections, and objects of another type (a bare Feature
\* that happens to carry a features array).
FilterInputs ==
  {Null} \cup {[type |-> ty, features |-> fs] :
                 ty \in {"FeatureCollection", "Feature"},
                 fs \in SeqsUpTo(FilterFeatures, MaxFeatures)}

FilterInit ==
  /\ SessionInit /\ CacheInit
  /\ geojsonArg \in FilterInputs
  /\ schoolNameArg \in FilterSchools
  /\ filtered = Null
  /\ refiltered = Null
  /\ filterStage = 0

ApplyFilter ==
  /\ filterStage = 0
  /\ filtered' = filterGeoJSONBySchool(geojsonArg, schoolNameArg)
  /\ filterStage' = 1
  /\ UNCHANGED <<geojsonArg, schoolNameArg, refiltered, sessionVars, cacheVars>>

ApplyFilterAgain ==
  /\ filterStage = 1
  /\ refiltered' = filterGeoJSONBySchool(filtered, schoolNameArg)
  /\ filterStage' = 2
  /\ UNCHANGED <<geojsonArg, schoolNameArg, filtered, sessionVars, cacheVars>>

FilterNext == ApplyFilter \/ ApplyFilterAgain

FilterSpec == FilterInit /\ [][FilterNext]_vars

\* ---- C16
\* The positions of fs whose feature belongs to school name, and the number
\* of them up to position i.
Matching(fs, name) == {i \in DOMAIN fs : fs[i].school_name = name}
Rank(fs, name, i) == Cardinality({m \in Matching(fs, name) : m <= i})

\* C16: filterGeoJSONBySchool(fc, name) is fc itself when name is empty or
\* fc is no FeatureCollection; otherwise it is a FeatureCollection whose
\* features are exactly the features of fc of school name, in their order;
\* filtering the result again with the same name changes nothing.
C16_FilterBySchool ==
  /\ filterStage >= 1 =>
       IF schoolNameArg = "" \/ geojsonArg = Null \/ geojsonArg.type # "FeatureCollection"
       THEN filtered = geojsonArg
       ELSE /\ filtered.type = "FeatureCollection"
            /\ Len(filtered.features) = Cardinality(Matching(geojsonArg.features, schoolNameArg))
            /\ \A i \in Matching(geojsonArg.features, schoolNameArg) :
                  filtered.features[Rank(geojsonArg.features, schoolNameArg, i)]
                    = geojsonArg.features[i]
  /\ filterStage = 2 => refiltered = filtered

\* A collection with two features of school X around one of school Y was
\* filtered by X, twice.
C16_Witness ==
  /\ filterStage = 2 /\ schoolNameArg = "X"
  /\ geojsonArg.type = "FeatureCollection" /\ Len(geojsonArg.features) = 3
  /\ geojsonArg.features[1] = Feat("Polygon", <<2>>, "X")
  /\ geojsonArg.features[2].school_name = "Y"
  /\ geojsonArg.features[3] = Feat("Polygon", <<1>>, "X")
  /\ filtered.features = <<Feat("Polygon", <<2>>, "X"), Feat("Polygon", <<1>>, "X")>>

\* ---- C17
\* The polygon layer as rendering collection geojson draws it.
Rendered(geojson) == Layer(createOverlaysFromGeoJSON(geojson))
\* The collection last fetched from (or accepted by) the server for file f.
LastFetched(f) == responseCache[<<"polygons", f>>]
\* A server-sourced file is on screen, unfiltered, with the collection last
\* fetched for it still held, and the overlays carry edits that were not
\* saved.
UncommittedEdits ==
  /\ currentFileSource = "server" /\ currentFileName \in Files
  /\ schoolSel = ""
  /\ <<"polygons", currentFileName>> \in DOMAIN responseCache
  /\ \E i \in DOMAIN currentPolygonLayer.overlays :
        Base(currentPolygonLayer.overlays[i].pos) # currentPolygonLayer.overlays[i].pos
  /\ overlaysToGeoJSON(currentPolygonLayer, "Polygon")
       # overlaysToGeoJSON(Rendered(LastFetched(currentFileName)), "Polygon")

\* C17: for a server-sourced file with uncommitted in-overlay edits, reset
\* edits ends with both edit sessions inactive and the polygon layer's
\* geometry equal, feature for feature, to the last collection fetched from
\* the server for that file.
C17_ResetRestoresServerGeometry ==
  [][ResetClick /\ UncommittedEdits =>
       /\ ~isPolygonEditing' /\ ~isPointsEditing'
       /\ overlaysToGeoJSON(currentPolygonLayer', "Polygon")
            = overlaysToGeoJSON(Rendered(LastFetched(currentFileName)), "Polygon")]_vars

\* ---- C18
\* C18: promoting a history snapshot to current sets the file source to
\* server, clears the history selection, leaves the items layer empty, and
\* makes the snapshot's polygons (and its points, when points are visible)
\* both the rendered layer and the layer's original snapshot; a snapshot that
\* carries no polygons leaves the polygon layer empty.
C18_PromoteMakesSnapshotCurrent ==
  [][\A t \in tasks : t.k = "restore" /\ ResumeRestore(t, "ok") =>
       LET data == HistorySnapshot(t.arg)
       IN  /\ currentFileSource' = "server"
           /\ currentFileName' = data.file_name
           /\ historySel' = ""
           /\ LayerEmpty(currentItemsLayer')
           /\ data.polygons # Null =>
                 /\ overlaysToGeoJSON(currentPolygonLayer', "Polygon") = data.polygons
                 /\ originalPolygonGeoJSON' = data.polygons
           /\ data.polygons = Null => LayerEmpty(currentPolygonLayer')
           /\ showPoints /\ data.points # Null =>
                 /\ overlaysToGeoJSON(currentPointsLayer', "Point") = data.points
                 /\ originalPointsGeoJSON' = data.points]_vars

\* Version h1 was promoted with points visible: its polygons and points are
\* on screen and are the originals of the server-sourced file.
C18_Witness ==
  /\ status = "restored" /\ currentFileSource = "server" /\ historySel = ""
  /\ showPoints
  /\ originalPolygonGeoJSON = HistorySnapshot("h1").polygons
  /\ originalPointsGeoJSON = HistorySnapshot("h1").points
  /\ ~LayerEmpty(currentPolygonLayer) /\ ~LayerEmpty(currentPointsLayer)

\* ---- C19
\* The school names a history list can have been cached under.
ListSchools == {"", "X", "Y"}

\* C19: promoting a history snapshot to current clears the cached history
\* list of that file, so the history-list reload that follows the promotion
\* is served by a network request and not by an entry cached before it.
C19_PromoteInvalidatesHistoryList ==
  [][\A t \in tasks : t.k = "restore" /\ ResumeRestore(t, "ok") =>
       LET f == HistorySnapshot(t.arg).file_name
       IN  /\ \A school \in ListSchools :
                <<"historyList", HistKey(f, school)>> \notin DOMAIN responseCache'
           /\ \E u \in tasks' : u.k = "historyList" /\ u.file = f]_vars

\* ---- C20
\* The step in which version id comes on screen for viewing: the selection
\* of id served from the cache, or the arrival of the response for id.
ViewApplied(id) ==
  \/ SelectHistory(id) /\ <<"historyItem", id>> \in DOMAIN responseCache
  \/ \E t \in tasks : t.arg = id /\ ResumeHistoryItem(t, "ok")

\* C20: viewing a historical version sets the file source to history,
\* renders the snapshot's polygons and (when points are visible) its points,
\* leaves the polygon layer empty when the snapshot carries no polygons, and
\* leaves the polygon, points and items original snapshots exactly as they
\* were before the view.
C20_ViewKeepsOriginals ==
  [][\A id \in HistoryIds :
       /\ SelectHistory(id) => UNCHANGED originals
       /\ ViewApplied(id) =>
            LET data == HistorySnapshot(id)
            IN  /\ currentFileSource' = "history"
                /\ data.polygons # Null =>
                      overlaysToGeoJSON(currentPolygonLayer', "Polygon") = data.polygons
                /\ data.polygons = Null => LayerEmpty(currentPolygonLayer')
                /\ showPoints /\ data.points # Null =>
                      overlaysToGeoJSON(currentPointsLayer', "Point") = data.points
                /\ UNCHANGED originals]_vars

\* Version h1 is being viewed with points visible, over file A whose
\* originals are still the collections fetched for A.
C20_Witness ==
  /\ currentFileSource = "history" /\ historySel = "h1" /\ showPoints
  /\ overlaysToGeoJSON(currentPolygonLayer, "Polygon") = HistorySnapshot("h1").polygons
  /\ overlaysToGeoJSON(currentPointsLayer, "Point") = HistorySnapshot("h1").points
  /\ originalPolygonGeoJSON = ServerPolygons("A")
  /\ originalPointsGeoJSON = ServerPoints("A")

\* ---- C21
\* C21: choosing a school while a historical version is selected is
\* rejected: the three layers, the file source and the history selection
\* stay as they were.
C21_FilterRejectedInHistory ==
  [][\A v \in schoolOptions \cup {""} :
       SelectSchool(v) /\ historySel # "" =>
         UNCHANGED <<layers, currentFileSource, historySel>>]_vars

\* ---- C22
\* The step in which a request of select file t fails (not a 404) and the
\* handler runs to its end without suspending again; t is the only handler
\* under way, its file is still the active one, and the layers the handler
\* had not reached yet are still empty (no other handler filled them).
SelectEndsAfterFailure(t) ==
  /\ tasks = {t} /\ ~Stale(t)
  /\ \/ /\ ResumeSelPolygons(t, "fail")
        /\ LayerEmpty(currentPolygonLayer) /\ LayerEmpty(currentPointsLayer)
        /\ LayerEmpty(currentItemsLayer)
     \/ ResumeSelPoints(t, "fail") /\ LayerEmpty(currentItemsLayer)
     \/ ResumeSelItems(t, "fail")
  /\ tasks' = {}

\* C22: when a polygon, points or items request of select file fails, at
\* the end of the handler a failure message is shown and the three layers
\* are empty.
C22_FailedSelectLeavesLayersEmpty ==
  [][\A t \in tasks : SelectEndsAfterFailure(t) =>
       /\ status' \in {"loadFailed", "pointsFailed", "itemsFailed"}
       /\ LayerEmpty(currentPolygonLayer') /\ LayerEmpty(currentPointsLayer')
       /\ LayerEmpty(currentItemsLayer')]_vars

\* ---- C23
\* The step in which a points (items) request is answered 404.
PointsNotFound(t) == ResumeSelPoints(t, "404") \/ ResumePoints(t, "404")
ItemsNotFound(t) == ResumeSelItems(t, "404") \/ ResumeItems(t, "404")

\* The rest of select file after its points stage (its items stage) is under
\* way or done: the items request, or the history list requested or set.
ItemsStageRuns(f) ==
  \/ Task("selItems", f, "", Null) \in tasks'
  \/ /\ <<"items", f>> \in DOMAIN responseCache
     /\ originalItemsGeoJSON' = responseCache[<<"items", f>>]
HistoryStageRuns ==
  \/ Task("historyList", currentFileName', schoolSel', Null) \in tasks'
  \/ currentFileName' # NoFile /\ currentFileSource' = "server"
       /\ <<"historyList", HistKey(currentFileName', schoolSel')>> \in DOMAIN responseCache
       /\ historyOptions' = responseCache[<<"historyList", HistKey(currentFileName', schoolSel')>>]
  \/ (currentFileName' = NoFile \/ currentFileSource' # "server") /\ historyOptions' = {}

C24_UnparsableFileChangesNothing ==
  [][/\ OpenLocalFile(FALSE) =>
          UNCHANGED <<fileSel, schoolSel, schoolOptions, historySel, historyOptions,
                      showPoints, showItems, layers, polygonEditors, isPolygonEditing,
                      isPointsEditing, originals, currentFileName, currentFileSource,
                      responseCache, status>>
     /\ \A t \in tasks : t.arg = "bad" /\ ReaderLoaded(t) =>
          /\ status' = "parseFailed"
          /\ UNCHANGED <<fileSel, schoolSel, schoolOptions, historySel, historyOptions,
                         showPoints, showItems, layers, polygonEditors, isPolygonEditing,
                         isPointsEditing, originals, currentFileName, currentFileSource,
                         responseCache>>
          /\ tasks' = tasks \ {t}]_vars

\* The read of an unparsable local file ended while file A was on screen
\* with its polygon edit session active: the session and the file are still
\* there.
C24_Witness ==
  /\ status = "parseFailed" /\ tasks = {}
  /\ currentFileName = "A" /\ currentFileSource = "server"
  /\ isPolygonEditing /\ polygonEditors = 2
  /\ overlaysToGeoJSON(currentPolygonLayer, "Polygon") = ServerPolygons("A")

\* ---- C25
\* The history-list entries of the cache.
HistoryListCache(cache) == {x \in DOMAIN cache : x[1] = "historyList"}
ServerFileActive == currentFileName # NoFile /\ currentFileSource = "server"

\* Save-all answered with success, for a server-sourced active file: no
\* history-list entry is left in the cache and the list is requested.
SaveAllReloadsHistory ==
  \A t \in tasks : ResumeSaveAll(t, "ok") /\ ServerFileActive =>
    /\ HistoryListCache(responseCache') = {}
    /\ Task("historyList", currentFileName, schoolSel, Null) \in tasks'

\* Save-all answered with success while the active file is not
\* server-sourced: no request is issued and the cache is as it was.
SaveAllElseLeavesHistory ==
  \A t \in tasks : ResumeSaveAll(t, "ok") /\ ~ServerFileActive =>
    /\ tasks' = tasks \ {t}
    /\ responseCache' = responseCache

\* C25: after a successful save-all the history list of a server-sourced
\* active file is invalidated and reloaded by a network request; with an
\* active file that is not server-sourced, save-all issues no history
\* request and leaves the history-list cache as it was.
C25_SaveAllHistoryReload ==
  [][SaveAllReloadsHistory /\ SaveAllElseLeavesHistory]_vars

\* ---- C26
\* A step that calls loadHistoryList while there is no active file or the
\* active file is not server-sourced: a change of the school select, or the
\* success of save-all. (Select file and promote make the file
\* server-sourced before they list.)
ListsWithoutServerFile ==
  /\ ~ServerFileActive
  /\ \/ \E v \in schoolOptions \cup {""} : SelectSchool(v)
     \/ \E t \in tasks : ResumeSaveAll(t, "ok") /\ currentFileSource # "history"

\* C26: listing the history versions with no active server-sourced file
\* yields the empty list and issues no request.
C26_NoListWithoutServerFile ==
  [][ListsWithoutServerFile =>
       /\ historyOptions' = {} /\ historySel' = ""
       /\ {u \in tasks' : u.k = "historyList"} \subseteq tasks]_vars

\* A school was chosen while version h1 of file A was viewed: the list of
\* A's versions is in the cache and was shown before, and the history
\* select is empty now with no list request under way.
C26_Witness ==
  /\ currentFileSource = "history" /\ currentFileName = "A" /\ schoolSel = "X"
  /\ <<"historyList", HistKey("A", "")>> \in DOMAIN responseCache
  /\ historyOptions = {} /\ tasks = {}

\* ---- C27
\* C27: when a layer save is answered with a non-success status, the cache,
\* the original snapshots, the layers and both edit sessions are as they
\* were, and the failure is shown.
C27_RejectedSaveChangesNothing ==
  [][\A t \in tasks : t.k \in SaveKinds /\ ResumeSave(t, "fail") =>
       /\ status' = "saveFailed"
       /\ UNCHANGED <<responseCache, originals, layers, polygonEditors,
                      isPolygonEditing, isPointsEditing,
                      currentFileName, currentFileSource>>]_vars

\* A save of file A's polygons with a dragged vertex was refused: the edit
\* session is still active, the edit is on screen, and the cache and the
\* original still hold what the server sent.
C27_Witness ==
  /\ status = "saveFailed" /\ currentFileName = "A" /\ isPolygonEditing
  /\ \E i \in DOMAIN currentPolygonLayer.overlays :
       currentPolygonLayer.overlays[i].pos # Base(currentPolygonLayer.overlays[i].pos)
  /\ originalPolygonGeoJSON = ServerPolygons("A")
  /\ <<"polygons", "A">> \in DOMAIN responseCache
  /\ responseCache[<<"polygons", "A">>] = ServerPolygons("A")

\* ---- C28
\* C28: a click on the edit toggle of a session that is active turns the
\* session off: its flag is false afterwards, no polygon editor is open (no
\* marker is draggable).
C28_ToggleOffAlwaysCloses ==
  [][/\ EditPolygonClick /\ isPolygonEditing =>
          /\ ~isPolygonEditing' /\ polygonEditors' = 0
          /\ NoHandles(currentPolygonLayer'.overlays)
     /\ EditPointsClick /\ isPointsEditing =>
          /\ ~isPointsEditing'
          /\ NoHandles(currentPointsLayer'.overlays)]_vars

\* ---- C29
\* The kinds of the requests issued in a step.
IssuedKinds == {u.k : u \in tasks' \ tasks}

\* C29: choosing school v (or "all") re-renders every layer whose original
\* snapshot exists from that snapshot filtered by v, without a polygon,
\* points or items request for it and without changing the snapshot; the
\* overlays are new ones, so edits made on the old ones are gone and no
\* editor or drag handle is left. (Points and items are rendered when
\* their checkbox is ticked.)
C29_FilterIsLocal ==
  [][\A v \in schoolOptions \cup {""} : SelectSchool(v) =>
       /\ IssuedKinds \cap {"selPolygons", "selPoints", "selItems"} = {}
       /\ originalPolygonGeoJSON # Null =>
            /\ currentPolygonLayer' = Rendered(filterGeoJSONBySchool(originalPolygonGeoJSON, v))
            /\ UNCHANGED originalPolygonGeoJSON
       /\ showPoints /\ originalPointsGeoJSON # Null =>
            /\ currentPointsLayer' = Rendered(filterGeoJSONBySchool(originalPointsGeoJSON, v))
            /\ UNCHANGED originalPointsGeoJSON
            /\ "points" \notin IssuedKinds
       /\ showItems /\ originalItemsGeoJSON # Null =>
            /\ currentItemsLayer' = Rendered(filterGeoJSONBySchool(originalItemsGeoJSON, v))
            /\ UNCHANGED originalItemsGeoJSON
            /\ "items" \notin IssuedKinds]_vars

\* File A is shown filtered by school X with points visible: each layer is
\* the rendering of its filtered original, the originals are the full
\* collections the server sent, and only the history list of (A, X) is
\* being requested.
C29_Witness ==
  /\ currentFileName = "A" /\ currentFileSource = "server" /\ schoolSel = "X" /\ showPoints
  /\ originalPolygonGeoJSON = ServerPolygons("A")
  /\ originalPointsGeoJSON = ServerPoints("A")
  /\ currentPolygonLayer = Rendered(filterGeoJSONBySchool(ServerPolygons("A"), "X"))
  /\ currentPointsLayer = Rendered(filterGeoJSONBySchool(ServerPoints("A"), "X"))
  /\ Len(currentPolygonLayer.overlays) = 1
  /\ tasks = {Task("historyList", "A", "X", Null)}

\* ---- C30
\* C30: reset edits on a local- or history-sourced file issues no request
\* and renders the polygon layer, and the points and items layers when
\* they are visible, from the original snapshots in memory; the source,
\* currentFileName and the snapshots stay as they are and both edit
\* sessions are off.
C30_ResetFromMemory ==
  [][ResetClick /\ currentFileSource \in {"local", "history"} =>
       /\ tasks' = tasks
       /\ UNCHANGED <<currentFileName, currentFileSource, originals, responseCache>>
       /\ ~isPolygonEditing' /\ ~isPointsEditing'
       /\ originalPolygonGeoJSON # Null
       /\ currentPolygonLayer' = Rendered(originalPolygonGeoJSON)
       /\ showPoints /\ originalPointsGeoJSON # Null =>
            currentPointsLayer' = Rendered(originalPointsGeoJSON)
       /\ showItems /\ originalItemsGeoJSON # Null =>
            currentItemsLayer' = Rendered(originalItemsGeoJSON)]_vars

\* C30 as it holds: the polygon layer is rendered from its original when
\* there is one (resetEdits tests it); when there is none, nothing is
\* cleared or rendered and the three layers stay as they are, but for the
\* closed editors and drag handles.
C30_ResetFromMemoryIfAny ==
  [][ResetClick /\ currentFileSource \in {"local", "history"} =>
       /\ tasks' = tasks
       /\ UNCHANGED <<currentFileName, currentFileSource, originals, responseCache>>
       /\ ~isPolygonEditing' /\ ~isPointsEditing'
       /\ IF originalPolygonGeoJSON # Null
          THEN currentPolygonLayer' = Rendered(originalPolygonGeoJSON)
          ELSE currentPolygonLayer' = disableAllEditing(Cur).currentPolygonLayer
       /\ showPoints /\ originalPointsGeoJSON # Null =>
            currentPointsLayer' = Rendered(originalPointsGeoJSON)
       /\ showItems /\ originalItemsGeoJSON # Null =>
            currentItemsLayer' = Rendered(originalItemsGeoJSON)]_vars

\* Reset was clicked on the local file: the file is still the local one and
\* its polygon is drawn as it was read, with no editor and no request.
C30_Witness ==
  /\ status = "resetDone" /\ currentFileSource = "local" /\ currentFileName = LocalName
  /\ currentPolygonLayer = Rendered(LocalGeoJSON)
  /\ originalPolygonGeoJSON = LocalGeoJSON
  /\ ~isPolygonEditing /\ tasks = {}

\* ---- C31
\* The status messages that announce work under way.
InProgress == {"loading", "loadingHistory", "restoring", "saving", "savingAll"}

\* No handler is suspended: every handler that was started has finished.
AllFinished == tasks = {}

\* C31: once every handler that was started has finished (every request
\* was answered), the status line does not show an in-progress message
\* (loading, loading history version, restoring, saving).
C31_NoSpinnerWhenIdle == AllFinished => status \notin InProgress

\* ---- C32
\* The cache a save of the given kind writes to.
CacheOfSave(kind) == IF kind = "savePoints" THEN "points" ELSE "polygons"

\* The entry of key x, or Null when the cache has none.
EntryOf(cache, x) == IF x \in DOMAIN cache THEN cache[x] ELSE Null

\* C32: a layer save writes the cache under the file it was sent to: when
\* the answer to a save sent for file A arrives after another file B became
\* current, the cache entry of B and the original snapshots (which belong to
\* B) stay as they were, and the saved geometry is cached under A.
C32_SaveStoredUnderItsFile ==
  [][\A t \in tasks :
       /\ t.k \in SaveKinds /\ ResumeSave(t, "ok")
       /\ currentFileName \in Files /\ t.file # currentFileName
       => /\ EntryOf(responseCache', <<CacheOfSave(t.k), currentFileName>>)
               = EntryOf(responseCache, <<CacheOfSave(t.k), currentFileName>>)
          /\ EntryOf(responseCache', <<CacheOfSave(t.k), t.file>>) = t.body
          /\ UNCHANGED originals]_vars

\* ---- C33
\* Every geometry element of the collection was loaded for file f (from the
\* server or from a history snapshot of f), edited or not.
OriginatesFrom(geojson, f) ==
  \A i \in DOMAIN geojson.features :
    \A j \in DOMAIN geojson.features[i].coordinates :
      OriginFile(geojson.features[i].coordinates[j]) = f

\* C33: every save request sent to the endpoint of file F carries geometry
\* that originates from data of F: the click that sends a save leaves no
\* save request whose body holds geometry of another file.
C33_SaveCarriesOwnGeometry ==
  [][SaveClick /\ status' = "saving" =>
       \A u \in tasks' : u.k \in SaveKinds /\ u.file = currentFileName
                           => OriginatesFrom(u.body, u.file)]_vars

\* ---- C34
\* The selection (or local open) of the current file has finished, its
\* polygons are the polygon original, and its points did not come on screen
\* (they are hidden, or the server has none).
SettledWithoutPoints ==
  /\ tasks = {}
  /\ currentFileName # NoFile /\ currentFileSource \in {"server", "local"}
  /\ historySel = ""
  /\ originalPolygonGeoJSON # Null
  /\ OriginatesFrom(originalPolygonGeoJSON, currentFileName)
  /\ LayerEmpty(currentPointsLayer)

\* C34: once the selection of file F has finished, a points original left
\* by a previously active file is not used by a later filter change or
\* reset: the step renders no point of another file on F.
C34_NoForeignOriginalRendered ==
  [][SettledWithoutPoints /\ (ResetClick \/ \E v \in schoolOptions \cup {""} : SelectSchool(v))
       => OriginatesFrom(overlaysToGeoJSON(currentPointsLayer', "Point"), currentFileName)]_vars

\* ---- C35
\* C35: while the points (items) checkbox is unticked the points (items)
\* layer is empty: a load started while the box was ticked that resolves
\* after it was unticked does not render the layer.
C35_HiddenLayerStaysEmpty ==
  /\ ~showPoints => LayerEmpty(currentPointsLayer)
  /\ ~showItems => LayerEmpty(currentItemsLayer)

\* ---- C36
\* The version selected in the history selector is the one on screen.
SelectedVersionRendered ==
  /\ historySel # ""
  /\ HistorySnapshot(historySel).polygons # Null
  /\ overlaysToGeoJSON(currentPolygonLayer, "Polygon") = HistorySnapshot(historySel).polygons

\* C36: when no request is in flight, the file source is history exactly
\* when a history version is selected: the source is not history with the
\* history selection cleared, and it is not server or local while a version
\* is selected and rendered.
C36_HistorySourceIffSelected ==
  tasks = {} => /\ currentFileSource = "history" => historySel # ""
                /\ SelectedVersionRendered => currentFileSource = "history"

\* ---- C37
\* C37: while the file source is history the polygon layer shows the
\* selected snapshot's polygons: a reset or a filter change made while a
\* version is on screen either leaves the history context or leaves the
\* snapshot's polygons on screen.
C37_HistoryShowsSnapshot ==
  [][/\ currentFileSource = "history" /\ SelectedVersionRendered
     /\ (ResetClick \/ \E v \in schoolOptions \cup {""} : SelectSchool(v))
     /\ currentFileSource' = "history"
     => overlaysToGeoJSON(currentPolygonLayer', "Polygon")
          = HistorySnapshot(historySel).polygons]_vars

\* ---- C38
\* The overlays of the sequence that are of class cls.
OfClass(ovs, cls) == {i \in DOMAIN ovs : ovs[i].cls = cls}

\* C38: the edit flags agree with the overlays: while polygon editing is
\* active every polygon of the polygon layer has an open editor and the
\* editor list holds no editor of a removed overlay, and while points
\* editing is active every marker of the points layer is draggable.
C38_EditFlagsAgreeWithOverlays ==
  /\ isPolygonEditing =>
       /\ \A i \in OfClass(currentPolygonLayer.overlays, "Polygon") :
             currentPolygonLayer.overlays[i].editor
       /\ polygonEditors = Cardinality(OfClass(currentPolygonLayer.overlays, "Polygon"))
  /\ isPointsEditing =>
       \A i \in OfClass(currentPointsLayer.overlays, "Marker") :
          currentPointsLayer.overlays[i].draggable

\* ---- C39
\* C39: rendering a collection and reading it back without edits is a
\* round trip: right after the polygons of a file were loaded with no
\* school filter, overlaysToGeoJSON of the polygon layer is the collection
\* that was loaded, feature for feature.
C39_RenderReadBackRoundTrip ==
  [][\A t \in tasks :
       t.k = "selPolygons" /\ ResumeSelPolygons(t, "ok") /\ schoolSel' = ""
         => overlaysToGeoJSON(currentPolygonLayer', "Polygon") = ServerPolygons(t.file)]_vars
====
